---------------------------- MODULE Spec2Model ----------------------------
(***************************************************************************)
(* A model of lldb_mcp.py: the process-wide debugger session               *)
(* (debugger_state), the six tools that act on it, and the part of the     *)
(* LLDB engine the tools call (SBDebugger.Create / Terminate, the command  *)
(* interpreter, the debuggee process and its stdout buffer).               *)
(*                                                                         *)
(* Text is modelled as a sequence of string atoms: "" is << >>, string     *)
(* concatenation is \o.  A literal of the source is one atom; a location   *)
(* or condition typed by the caller is a sequence of one-character atoms.  *)
(* One tool call is one step: the tools are plain synchronous functions.   *)
(***************************************************************************)
EXTENDS Integers, Sequences, FiniteSets, TLC

\* ------------------------------------------------------------------ bounds
MaxEngines == 2     \* engine instances SBDebugger.Create may hand out in a run
MaxBytes   == 2     \* bytes the debuggee writes to its stdout in a run
MaxBurst   == 1     \* bytes the debuggee writes while one command executes
MaxLocLen  == 2     \* every location of up to this many characters is tried
ChunkSize  == 1     \* the 1024 of GetSTDOUT(1024), scaled to MaxBytes

\* ------------------------------------------------------------- value sets
None    == 0          \* Python None in a handle or process-id slot
NoneStr == "<None>"   \* Python None in a filename / arch slot

Engines   == 1..MaxEngines
Bytes     == 1..MaxBytes
Filenames == {"/bin/a", "/bin/b", "/missing"}
Archs     == {"x86_64", "arm64"}
Commands  == {<<"run">>, <<"bt">>}
OutPaths  == {<< >>, <<"out.txt">>, <<"/nodir/out.txt">>}
LocChars  == {":", "0", "x"}
Conditions == {<< >>, <<"c">>}

RECURSIVE StringsUpTo(_)
StringsUpTo(n) ==
    IF n = 0 THEN {<< >>}
    ELSE LET shorter == StringsUpTo(n - 1)
         IN  shorter \cup {Append(s, c) : s \in {t \in shorter : Len(t) = n - 1}, c \in LocChars}

\* Every short location, and longer ones of each shape: an address with a
\* colon, file:line, file:line:column, a long address, a long name.
Locations ==
    (StringsUpTo(MaxLocLen) \ {<< >>})
      \cup {<<"0", "x", ":">>, <<"0", "x", ":", "0">>, <<"x", ":", "0", "0">>,
            <<"x", ":", "0", ":", "x">>, <<"0", "x", "0", "0">>,
            <<"x", "0", "x", "0">>}

\* --------------------------------------------------------------- variables
VARIABLES
    debugger_state,  \* the global session record
    live,            \* engine instances created and not yet released
    created,         \* number of engine instances created so far
    process,         \* engine -> state of its target's process, "none" if no valid process
    stdoutBuf,       \* engine -> debuggee stdout bytes buffered by the engine, oldest first
    produced,        \* number of bytes the debuggee has written so far
    files,           \* output path -> [exists, content]
    open_files,      \* output paths currently open for writing
    lastCall,        \* the tool call just made, with its arguments
    result,          \* what that call returned
    engineOps,       \* engine API calls that call made, in order
    issued,          \* commands that call handed to HandleCommand: [engine, command]
    drained,         \* bytes that call removed from a stdout buffer, in order
    timesReturned,   \* history: byte -> number of program_stdout fields it was returned in
    lastInit,        \* history: [filename, arch] of the session's successful initialize
    pc,              \* caller -> where its tool call stands, "idle" between calls
    local            \* caller -> the handles its call read from debugger_state

vars == <<debugger_state, live, created, process, stdoutBuf, produced, files,
          open_files, lastCall, result, engineOps, issued, drained,
          timesReturned, lastInit, pc, local>>


\* ------------------------------------------------------- Python primitives
Min(a, b) == IF a <= b THEN a ELSE b

\* x in text: the word is one atom of the text
Contains(text, word) == \E i \in 1..Len(text) : text[i] = word

\* location.startswith("0x")
StartsWith0x(location) ==
    Len(location) >= 2 /\ location[1] = "0" /\ location[2] = "x"

\* location.split(':'): the pieces between the colons, in order
RECURSIVE Split(_)
Split(s) ==
    IF ~Contains(s, ":") THEN <<s>>
    ELSE LET i == CHOOSE k \in 1..Len(s) :
                      s[k] = ":" /\ \A j \in 1..(k - 1) : s[j] # ":"
         IN  <<SubSeq(s, 1, i - 1)>> \o Split(SubSeq(s, i + 1, Len(s)))

\* An existence check that accepts every path.
ExistsAlways(filename) == TRUE

\* os.path.exists(filename)
Exists(filename) == filename # "/missing"

\* A check of the output path that lets every path through.
CanOpenAlways(path) == TRUE

\* open(output_filename, "w") succeeds
CanOpen(path) == path # <<"/nodir/out.txt">>

\* ------------------------------------------------------------ engine model
\* States the engine reports for a process; eStateOther is a value that
\* state_names does not list.
EngineStates == {"eStateStopped", "eStateOther"}

\* What one HandleCommand does, chosen by the engine: interpreter output,
\* error text, Succeeded(), the process state it leaves ("none": no valid
\* process) and how many bytes the debuggee writes while it runs.
Behaviours ==
    [out : {<<"Breakpoint">>, <<"frame">>}, err : {<<"error">>},
     ok : BOOLEAN, state : EngineStates \cup {"none"}, nbytes : 0..MaxBurst]

\* What a handle reads as (its __bool__ / IsValid()) once the engine that
\* owns it has been released: the engine decides, the tools cannot know.
StaleReads ==
    IF debugger_state.debugger \in live \cup {None}
    THEN {[interpreter |-> FALSE, target |-> FALSE]}
    ELSE [interpreter : BOOLEAN, target : BOOLEAN]

\* bool(handle) for an interpreter or target handle: None is false, a handle
\* of a live engine is true, a handle of a released engine reads either way.
\* The debugger field is the session's own reference to the engine object
\* and is tested for None only.
Truthy(h, readsValid) == h # None /\ (h \in live \/ readsValid)

\* lldb.SBDebugger.Terminate(): static, releases every engine instance and
\* with it every target, process and buffered output.
TerminateLive     == {}
TerminateProcess  == [e \in Engines |-> "none"]
TerminateStdout   == [e \in Engines |-> << >>]

\* process.GetSTDOUT(n): removes and returns at most n buffered bytes
GetSTDOUT(buf, n) ==
    [chunk |-> SubSeq(buf, 1, Min(n, Len(buf))),
     rest  |-> SubSeq(buf, Min(n, Len(buf)) + 1, Len(buf))]


\* A drain that reads one chunk and stops.
DrainOnce(buf, output_read, reads) ==
    [read  |-> output_read \o GetSTDOUT(buf, ChunkSize).chunk,
     rest  |-> GetSTDOUT(buf, ChunkSize).rest,
     reads |-> reads + 1]

\* the while-loop of run_lldb_command_func: read chunks until one is empty
RECURSIVE DrainLoop(_, _, _)
DrainLoop(buf, output_read, reads) ==
    LET r == GetSTDOUT(buf, ChunkSize)
    IN  IF r.chunk = << >>
        THEN [read |-> output_read, rest |-> r.rest, reads |-> reads + 1]
        ELSE DrainLoop(r.rest, output_read \o r.chunk, reads + 1)

\* A drain that reads the buffer without consuming it.
DrainPeek(buf) == [read |-> buf, rest |-> buf, reads |-> 1]

\* output_read after the loop, and what the loop left in the buffer
Drain(buf) == DrainLoop(buf, << >>, 0)

NotInitializedMsg == <<"LLDB not initialized. Call initialize_debugger() first.">>

\* run_lldb_command_func from HandleCommand to its return, on the handles
\* it read into interpreter and target.  beh: the engine's behaviour for
\* this command.
ExecuteCommand(interpreter, target, command, beh) ==
    LET \* interpreter.HandleCommand(command, result)
        n     == IF interpreter \in live /\ beh.state # "none"
                 THEN Min(beh.nbytes, MaxBytes - produced) ELSE 0
        fresh == [i \in 1..n |-> produced + i]
        proc1 == IF interpreter \in live
                 THEN [process EXCEPT ![interpreter] = beh.state] ELSE process
        buf1  == IF interpreter \in live
                 THEN [stdoutBuf EXCEPT ![interpreter] =
                          IF beh.state = "none" THEN << >> ELSE @ \o fresh]
                 ELSE stdoutBuf
        lldb_output == beh.out \o (IF ~beh.ok THEN beh.err ELSE << >>)
        \* process = target.GetProcess(); process and process.IsValid()
        valid == target \in live /\ proc1[target] # "none"
        d     == IF valid THEN Drain(buf1[target])
                 ELSE [read |-> << >>, rest |-> << >>, reads |-> 0]
    IN  [ret |-> [command |-> command, lldb_output |-> lldb_output,
                  program_stdout |-> d.read],
         ops |-> <<"HandleCommand", "GetProcess">>
                   \o [i \in 1..d.reads |-> "GetSTDOUT"],
         issued |-> <<[engine |-> interpreter, command |-> command]>>,
         drained |-> IF valid THEN SubSeq(buf1[target], 1,
                                          Len(buf1[target]) - Len(d.rest))
                     ELSE << >>,
         process |-> proc1,
         stdoutBuf |-> IF valid THEN [buf1 EXCEPT ![target] = d.rest] ELSE buf1,
         produced |-> produced + n]

\* the result record when the initialized-check fails
NotInitializedResult ==
    [ret |-> [error |-> NotInitializedMsg,
              lldb_output |-> << >>, program_stdout |-> << >>],
     ops |-> << >>, issued |-> << >>, drained |-> << >>,
     process |-> process, stdoutBuf |-> stdoutBuf, produced |-> produced]

\* run_lldb_command_func(command): the record it returns and what it does
\* to the engine.  stale: how released handles read.
run_lldb_command_func(command, stale, beh) ==
    IF ~Truthy(debugger_state.interpreter, stale.interpreter)
         \/ ~Truthy(debugger_state.target, stale.target)
    THEN NotInitializedResult
    ELSE ExecuteCommand(debugger_state.interpreter, debugger_state.target,
                        command, beh)

\* history: count the bytes of a returned program_stdout
CountReturned(bytes) ==
    [b \in Bytes |-> timesReturned[b]
                       + Cardinality({i \in 1..Len(bytes) : bytes[i] = b})]


\* ----------------------------------------------------------- session state
Uninitialized ==
    [debugger |-> None, interpreter |-> None, target |-> None,
     filename |-> NoneStr, arch |-> NoneStr]

\* A store that leaves out the target assignment.
StoredStateNoTarget(debugger, filename, arch) ==
    [debugger |-> debugger, interpreter |-> debugger, target |-> None,
     filename |-> filename, arch |-> arch]

\* the "Store state" assignments of initialize_debugger
StoredState(debugger, filename, arch) ==
    [debugger |-> debugger, interpreter |-> debugger, target |-> debugger,
     filename |-> filename, arch |-> arch]

\* A reset that leaves out the filename assignment.
TerminatedStateKeepsFilename ==
    [debugger |-> None, interpreter |-> None, target |-> None,
     filename |-> debugger_state.filename, arch |-> NoneStr]

\* the five assignments of terminate_debugger
TerminatedState ==
    [debugger |-> None, interpreter |-> None, target |-> None,
     filename |-> NoneStr, arch |-> NoneStr]

\* the callers of the server, and the local variables interpreter and
\* target of a call before it has read them
Callers == {1, 2}
NoHandles == [interpreter |-> None, target |-> None]

NoInit == [filename |-> NoneStr, arch |-> NoneStr]

Init ==
    /\ debugger_state = Uninitialized
    /\ live = {}
    /\ created = 0
    /\ process = [e \in Engines |-> "none"]
    /\ stdoutBuf = [e \in Engines |-> << >>]
    /\ produced = 0
    /\ files = [p \in OutPaths \ {<< >>} |->
                  IF p = <<"out.txt">>
                  THEN [exists |-> TRUE, content |-> <<"old">>]
                  ELSE [exists |-> FALSE, content |-> << >>]]
    /\ open_files = {}
    /\ lastCall = [op |-> "none"]
    /\ result = << >>
    /\ engineOps = << >>
    /\ issued = << >>
    /\ drained = << >>
    /\ timesReturned = [b \in Bytes |-> 0]
    /\ lastInit = NoInit
    /\ pc = [c \in Callers |-> "idle"]
    /\ local = [c \in Callers |-> NoHandles]

\* ------------------------------------------------------ initialize_debugger
\* What the engine does for one initialize_debugger: whether Create,
\* GetCommandInterpreter and CreateTarget give a valid object, and
\* whether CreateTarget's SBError reports success.
InitOutcomes ==
    {o \in [create : BOOLEAN, interpreter : BOOLEAN, targetValid : BOOLEAN,
            errorSuccess : BOOLEAN] :
        /\ ~o.create => ~o.interpreter
        /\ ~o.interpreter => (~o.targetValid /\ ~o.errorSuccess)}

NotFoundMsg(filename) == <<"Error: The file '", filename, "' does not exist.">>
CreateFailedMsg == <<"Error: Failed to create SBDebugger instance.">>
InterpreterFailedMsg == <<"Error: Failed to get command interpreter.">>
TargetFailedMsg == <<"Error: Failed to create target: ", "error.GetCString()">>
InitializedMsg(filename, arch) ==
    <<"Successfully initialized LLDB debugger for target: ", filename,
      " (arch: ", arch, ")">>

\* A failure path that clears the session on its way out.
FailedInitStateReset == Uninitialized

\* the session after a failure past Create: the failure paths return
\* without assigning debugger_state
FailedInitState == debugger_state

InitializeDebugger(filename, arch, eng) ==
    /\ UNCHANGED <<pc, local>>
    /\ lastCall' = [op |-> "initialize_debugger", filename |-> filename, arch |-> arch]
    /\ issued' = << >>
    /\ drained' = << >>
    /\ UNCHANGED <<produced, files, open_files, timesReturned>>
    /\ IF ~Exists(filename)
       THEN /\ result' = NotFoundMsg(filename)
            /\ engineOps' = << >>
            /\ UNCHANGED <<debugger_state, live, created, process, stdoutBuf, lastInit>>
       ELSE IF ~eng.create
       THEN /\ result' = CreateFailedMsg
            /\ engineOps' = <<"Create">>
            /\ UNCHANGED <<debugger_state, live, created, process, stdoutBuf, lastInit>>
       ELSE /\ created < MaxEngines
            /\ created' = created + 1
            /\ LET debugger == created + 1
               IN  IF ~eng.interpreter
                   THEN /\ result' = InterpreterFailedMsg
                        /\ engineOps' = <<"Create", "SetAsync", "GetCommandInterpreter",
                                          "Terminate">>
                        /\ live' = TerminateLive
                        /\ process' = TerminateProcess
                        /\ stdoutBuf' = TerminateStdout
                        /\ debugger_state' = FailedInitState
                        /\ UNCHANGED lastInit
                   ELSE IF ~eng.targetValid \/ ~eng.errorSuccess
                   THEN /\ result' = TargetFailedMsg
                        /\ engineOps' = <<"Create", "SetAsync", "GetCommandInterpreter",
                                          "CreateTarget", "Terminate">>
                        /\ live' = TerminateLive
                        /\ process' = TerminateProcess
                        /\ stdoutBuf' = TerminateStdout
                        /\ debugger_state' = FailedInitState
                        /\ UNCHANGED lastInit
                   ELSE /\ result' = InitializedMsg(filename, arch)
                        /\ engineOps' = <<"Create", "SetAsync", "GetCommandInterpreter",
                                          "CreateTarget">>
                        /\ live' = live \cup {debugger}
                        /\ debugger_state' = StoredState(debugger, filename, arch)
                        /\ lastInit' = [filename |-> filename, arch |-> arch]
                        /\ UNCHANGED <<process, stdoutBuf>>

\* --------------------------------------------------------- run_lldb_command
OpenFailedMsg(path) == <<"[Errno 2] No such file or directory: ">> \o path

\* the part of a tool call that is run_lldb_command_func's doing
Executed(r) ==
    /\ engineOps' = r.ops
    /\ issued' = r.issued
    /\ drained' = r.drained
    /\ process' = r.process
    /\ stdoutBuf' = r.stdoutBuf
    /\ produced' = r.produced

RunLldbCommand(command, output_filename, stale, beh) ==
    /\ UNCHANGED <<pc, local>>
    /\ lastCall' = [op |-> "run_lldb_command", command |-> command,
                    output_filename |-> output_filename]
    /\ UNCHANGED <<debugger_state, live, created, lastInit, open_files>>
    /\ IF output_filename = << >>
       THEN LET r == run_lldb_command_func(command, stale, beh)
            IN  /\ result' = r.ret
                /\ Executed(r)
                /\ timesReturned' = CountReturned(r.ret.program_stdout)
                /\ UNCHANGED files
       ELSE IF ~CanOpen(output_filename)
       THEN /\ result' = [error |-> OpenFailedMsg(output_filename)]
            /\ engineOps' = << >>
            /\ issued' = << >>
            /\ drained' = << >>
            /\ UNCHANGED <<process, stdoutBuf, produced, files, timesReturned>>
       ELSE LET r == run_lldb_command_func(command, stale, beh)
            IN  \* with open(output_filename, "w") as f: nothing is written to f
                /\ files' = [files EXCEPT ![output_filename] =
                                [exists |-> TRUE, content |-> << >>]]
                /\ result' = r.ret
                /\ Executed(r)
                /\ timesReturned' = CountReturned(r.ret.program_stdout)

\* ------------------------------------------------------ get_debugger_status
\* A mapping that hands the engine's value through.
state_namesRaw(state) == state

\* state_names.get(state, "unknown")
state_names(state) ==
    CASE state = "eStateInvalid"   -> "invalid"
      [] state = "eStateUnloaded"  -> "unloaded"
      [] state = "eStateConnected" -> "connected"
      [] state = "eStateAttaching" -> "attaching"
      [] state = "eStateLaunching" -> "launching"
      [] state = "eStateStopped"   -> "stopped"
      [] state = "eStateRunning"   -> "running"
      [] state = "eStateStepping"  -> "stepping"
      [] state = "eStateCrashed"   -> "crashed"
      [] state = "eStateDetached"  -> "detached"
      [] state = "eStateExited"    -> "exited"
      [] state = "eStateSuspended" -> "suspended"
      [] OTHER                     -> "unknown"

\* A status record that reports the default architecture.
StatusHeaderDefaultArch ==
    [initialized |-> TRUE, filename |-> debugger_state.filename,
     arch |-> "x86_64", process_state |-> "No process",
     process_id |-> None]

\* the status record built before the process is looked at
StatusHeader ==
    [initialized |-> TRUE, filename |-> debugger_state.filename,
     arch |-> debugger_state.arch, process_state |-> "No process",
     process_id |-> None]

\* the record get_debugger_status returns and the engine calls it makes
StatusResult(stale) ==
    IF debugger_state.debugger = None
    THEN [ret |-> [initialized |-> FALSE, filename |-> NoneStr,
                   arch |-> NoneStr,
                   process_state |-> "No debugger initialized"],
          ops |-> << >>]
    ELSE LET target == debugger_state.target
         IN  IF ~Truthy(target, stale.target)
             THEN [ret |-> StatusHeader, ops |-> << >>]
             ELSE IF ~(target \in live /\ process[target] # "none")
             THEN [ret |-> StatusHeader, ops |-> <<"GetProcess">>]
             ELSE [ret |-> [StatusHeader EXCEPT
                              !.process_state = state_names(process[target]),
                              !.process_id = target],
                   ops |-> <<"GetProcess", "GetState", "GetProcessID">>]

\* A status call that also empties the engines' stdout buffers.
GetDebuggerStatusDraining(stale) ==
    /\ UNCHANGED <<pc, local>>
    /\ lastCall' = [op |-> "get_debugger_status"]
    /\ result' = StatusResult(stale).ret
    /\ engineOps' = StatusResult(stale).ops \o <<"GetSTDOUT">>
    /\ issued' = << >>
    /\ drained' = << >>
    /\ stdoutBuf' = [e \in DOMAIN stdoutBuf |-> << >>]
    /\ UNCHANGED <<debugger_state, live, created, process, produced,
                   files, open_files, timesReturned, lastInit>>

GetDebuggerStatus(stale) ==
    /\ UNCHANGED <<pc, local>>
    /\ lastCall' = [op |-> "get_debugger_status"]
    /\ result' = StatusResult(stale).ret
    /\ engineOps' = StatusResult(stale).ops
    /\ issued' = << >>
    /\ drained' = << >>
    /\ UNCHANGED <<debugger_state, live, created, process, stdoutBuf, produced,
                   files, open_files, timesReturned, lastInit>>

\* ------------------------------------------------------- terminate_debugger
TerminatedMsg == <<"LLDB debugger session terminated successfully.">>
NoSessionMsg  == <<"No active debugger session to terminate.">>

TerminateDebugger ==
    /\ UNCHANGED <<pc, local>>
    /\ lastCall' = [op |-> "terminate_debugger"]
    /\ issued' = << >>
    /\ drained' = << >>
    /\ lastInit' = NoInit
    /\ UNCHANGED <<created, produced, files, open_files, timesReturned>>
    /\ IF debugger_state.debugger # None
       THEN /\ engineOps' = <<"Terminate">>
            /\ live' = TerminateLive
            /\ process' = TerminateProcess
            /\ stdoutBuf' = TerminateStdout
            /\ debugger_state' = TerminatedState
            /\ result' = TerminatedMsg
       ELSE /\ engineOps' = << >>
            /\ result' = NoSessionMsg
            /\ UNCHANGED <<debugger_state, live, process, stdoutBuf>>


\* ----------------------------------------------------------- set_breakpoint
\* A builder that tests the 0x prefix before the colon.
BreakpointCommandAddressFirst(location) ==
    IF StartsWith0x(location)
    THEN <<"breakpoint set --address ">> \o location
    ELSE IF Contains(location, ":")
    THEN <<"breakpoint set --file ">> \o Split(location)[1]
            \o <<" --line ">> \o Split(location)[2]
    ELSE <<"breakpoint set --name ">> \o location

\* "Build breakpoint command": file:line, then address, then function name
BreakpointCommand(location) ==
    IF Contains(location, ":")
    THEN <<"breakpoint set --file ">> \o Split(location)[1]
            \o <<" --line ">> \o Split(location)[2]
    ELSE IF StartsWith0x(location)
    THEN <<"breakpoint set --address ">> \o location
    ELSE <<"breakpoint set --name ">> \o location

\* "Add condition if provided"
ConditionClause(condition) ==
    IF condition # << >> THEN <<" --condition '">> \o condition \o <<"'">>
    ELSE << >>

SetBreakpoint(location, condition, stale, beh) ==
    /\ UNCHANGED <<pc, local>>
    /\ lastCall' = [op |-> "set_breakpoint", location |-> location,
                    condition |-> condition]
    /\ UNCHANGED <<debugger_state, live, created, lastInit, files, open_files,
                   timesReturned>>
    /\ IF ~Truthy(debugger_state.interpreter, stale.interpreter)
       THEN /\ result' = [success |-> FALSE, message |-> NotInitializedMsg,
                          lldb_output |-> << >>]
            /\ engineOps' = << >>
            /\ issued' = << >>
            /\ drained' = << >>
            /\ UNCHANGED <<process, stdoutBuf, produced>>
       ELSE LET cmd == BreakpointCommand(location) \o ConditionClause(condition)
                r   == run_lldb_command_func(cmd, stale, beh)
                success == Contains(r.ret.lldb_output, "Breakpoint")
                             /\ "error" \notin DOMAIN r.ret
            IN  /\ result' =
                     [success |-> success,
                      message |-> IF success THEN <<"Breakpoint set at ">> \o location
                                  ELSE <<"Failed to set breakpoint">>,
                      lldb_output |-> r.ret.lldb_output,
                      condition |-> IF condition # << >> THEN condition
                                    ELSE <<"None">>]
                /\ Executed(r)

\* --------------------------------------------------------- list_breakpoints
ListBreakpoints(stale, beh) ==
    LET r == run_lldb_command_func(<<"breakpoint list">>, stale, beh)
    IN  /\ lastCall' = [op |-> "list_breakpoints"]
        /\ result' = [lldb_output |-> r.ret.lldb_output,
                      program_stdout |-> r.ret.program_stdout]
        /\ Executed(r)
        /\ timesReturned' = CountReturned(r.ret.program_stdout)
        /\ UNCHANGED <<debugger_state, live, created, lastInit, files, open_files,
                       pc, local>>

\* -------------------------------------------------------------- environment
\* The debuggee of a live engine writes one byte to its stdout between two
\* tool calls; the engine buffers it until a GetSTDOUT.
DebuggeeWrites(e) ==
    /\ e \in live
    /\ process[e] # "none"
    /\ produced < MaxBytes
    /\ produced' = produced + 1
    /\ stdoutBuf' = [stdoutBuf EXCEPT ![e] = Append(@, produced + 1)]
    /\ UNCHANGED <<pc, local>>
    /\ lastCall' = [op |-> "none"]
    /\ result' = << >>
    /\ engineOps' = << >>
    /\ issued' = << >>
    /\ drained' = << >>
    /\ UNCHANGED <<debugger_state, live, created, process, files, open_files,
                   timesReturned, lastInit>>

\* ------------------------------------------------------------ specification
\* Several specifications over the same actions.  They differ only in the
\* sets the callers' arguments and the engine's answers are drawn from.

\* Engine answers that start no process and write no output.
QuietBehaviours == {b \in Behaviours : b.state = "none" /\ b.nbytes = 0}

\* Spec: the session lifecycle.  Every tool, every way initialize_debugger
\* can fail, every output path; the engine starts no debuggee process.
LifecycleLocations == {<<"x">>, <<"0", "x">>, <<"x", ":", "0">>}

Next ==
    \/ \E filename \in Filenames, arch \in Archs, eng \in InitOutcomes :
          InitializeDebugger(filename, arch, eng)
    \/ \E command \in Commands, output_filename \in OutPaths,
          stale \in StaleReads, beh \in QuietBehaviours :
          RunLldbCommand(command, output_filename, stale, beh)
    \/ \E stale \in StaleReads : GetDebuggerStatus(stale)
    \/ TerminateDebugger
    \/ \E location \in LifecycleLocations, condition \in Conditions,
          stale \in StaleReads, beh \in QuietBehaviours :
          SetBreakpoint(location, condition, stale, beh)
    \/ \E stale \in StaleReads, beh \in QuietBehaviours : ListBreakpoints(stale, beh)

Spec == Init /\ [][Next]_vars

\* SpecOutput: the debuggee's stdout.  One executable, initialize_debugger
\* succeeds or fails at the target; the engine runs a process that writes.
OutputInits == {o \in InitOutcomes : o.create /\ o.interpreter /\ o.errorSuccess}
OutputBehaviours ==
    {b \in Behaviours : b.out = <<"frame">> /\ b.ok}

\* "breakpoint set" and "breakpoint list" do not run the debuggee: they
\* leave the session's process as it is and it writes nothing meanwhile.
InspectBehaviours ==
    {b \in OutputBehaviours :
        /\ b.nbytes = 0
        /\ b.state = IF debugger_state.target \in live
                     THEN process[debugger_state.target] ELSE "none"}

NextOutput ==
    \/ \E eng \in OutputInits : InitializeDebugger("/bin/a", "x86_64", eng)
    \/ \E stale \in StaleReads, beh \in OutputBehaviours :
          RunLldbCommand(<<"run">>, << >>, stale, beh)
    \/ \E stale \in StaleReads : GetDebuggerStatus(stale)
    \/ TerminateDebugger
    \/ \E stale \in StaleReads, beh \in InspectBehaviours :
          SetBreakpoint(<<"x">>, << >>, stale, beh)
    \/ \E stale \in StaleReads, beh \in InspectBehaviours : ListBreakpoints(stale, beh)
    \/ \E e \in Engines : DebuggeeWrites(e)

SpecOutput == Init /\ [][NextOutput]_vars

\* SpecBreakpoint: the breakpoint translator.  Every location and condition,
\* on a session that one initialize_debugger made or failed to make.
BreakpointBehaviours == {b \in QuietBehaviours : b.ok /\ b.out = <<"Breakpoint">>}

NextBreakpoint ==
    \/ \E eng \in OutputInits : InitializeDebugger("/bin/a", "x86_64", eng)
    \/ TerminateDebugger
    \/ \E location \in Locations, condition \in Conditions,
          stale \in StaleReads, beh \in BreakpointBehaviours :
          SetBreakpoint(location, condition, stale, beh)

SpecBreakpoint == Init /\ [][NextBreakpoint]_vars

\* SpecStatus: the status reporter.  The engine leaves the process in any
\* state of its enumeration, or in one state_names does not list.
AllEngineStates ==
    {"eStateInvalid", "eStateUnloaded", "eStateConnected", "eStateAttaching",
     "eStateLaunching", "eStateStopped", "eStateRunning", "eStateStepping",
     "eStateCrashed", "eStateDetached", "eStateExited", "eStateSuspended",
     "eStateOther"}

StatusBehaviours ==
    [out : {<<"frame">>}, err : {<<"error">>}, ok : {TRUE},
     state : AllEngineStates \cup {"none"}, nbytes : {0}]

NextStatus ==
    \/ \E eng \in OutputInits : InitializeDebugger("/bin/a", "x86_64", eng)
    \/ \E stale \in StaleReads, beh \in StatusBehaviours :
          RunLldbCommand(<<"run">>, << >>, stale, beh)
    \/ \E stale \in StaleReads : GetDebuggerStatus(stale)
    \/ TerminateDebugger

SpecStatus == Init /\ [][NextStatus]_vars

\* SpecConcurrent: two callers.  The source takes no lock, so the server
\* may run the body of one tool call between two statements of another.
\* run_lldb_command and terminate_debugger are taken statement by
\* statement; initialize_debugger runs as one step and succeeds.
GoodInits ==
    {o \in InitOutcomes : o.create /\ o.interpreter /\ o.targetValid /\ o.errorSuccess}

ConcurrentBehaviours == {b \in OutputBehaviours : b.nbytes = 0}

\* a step inside a call is not a return: it leaves the record of the last
\* returned call as it is
NoReturn == UNCHANGED <<lastCall, result, engineOps, issued, drained, timesReturned>>

\* run_lldb_command_func up to HandleCommand: the initialized-check and the
\* reads of the two handles into locals
RunCheck(c, stale) ==
    /\ pc[c] = "idle"
    /\ UNCHANGED <<debugger_state, live, created, process, stdoutBuf, produced,
                   files, open_files, lastInit>>
    /\ IF ~Truthy(debugger_state.interpreter, stale.interpreter)
          \/ ~Truthy(debugger_state.target, stale.target)
       THEN /\ lastCall' = [op |-> "run_lldb_command", command |-> <<"run">>,
                            output_filename |-> << >>]
            /\ result' = NotInitializedResult.ret
            /\ engineOps' = << >>
            /\ issued' = << >>
            /\ drained' = << >>
            /\ timesReturned' = timesReturned
            /\ UNCHANGED <<pc, local>>
       ELSE /\ pc' = [pc EXCEPT ![c] = "run_checked"]
            /\ local' = [local EXCEPT ![c] =
                            [interpreter |-> debugger_state.interpreter,
                             target |-> debugger_state.target]]
            /\ NoReturn

\* run_lldb_command_func from HandleCommand to its return
RunExecute(c, beh) ==
    /\ pc[c] = "run_checked"
    /\ LET r == ExecuteCommand(local[c].interpreter, local[c].target, <<"run">>, beh)
       IN  /\ lastCall' = [op |-> "run_lldb_command", command |-> <<"run">>,
                           output_filename |-> << >>]
           /\ result' = r.ret
           /\ Executed(r)
           /\ timesReturned' = CountReturned(r.ret.program_stdout)
    /\ pc' = [pc EXCEPT ![c] = "idle"]
    /\ local' = [local EXCEPT ![c] = NoHandles]
    /\ UNCHANGED <<debugger_state, live, created, files, open_files, lastInit>>

\* terminate_debugger: if debugger_state["debugger"]
TerminateCheck(c) ==
    /\ pc[c] = "idle"
    /\ UNCHANGED <<debugger_state, live, created, process, stdoutBuf, produced,
                   files, open_files, local>>
    /\ IF debugger_state.debugger # None
       THEN /\ pc' = [pc EXCEPT ![c] = "terminate_checked"]
            /\ UNCHANGED lastInit
            /\ NoReturn
       ELSE /\ lastCall' = [op |-> "terminate_debugger"]
            /\ result' = NoSessionMsg
            /\ engineOps' = << >>
            /\ issued' = << >>
            /\ drained' = << >>
            /\ lastInit' = NoInit
            /\ UNCHANGED <<pc, timesReturned>>

\* terminate_debugger: lldb.SBDebugger.Terminate()
TerminateRelease(c) ==
    /\ pc[c] = "terminate_checked"
    /\ pc' = [pc EXCEPT ![c] = "terminate_released"]
    /\ live' = TerminateLive
    /\ process' = TerminateProcess
    /\ stdoutBuf' = TerminateStdout
    /\ UNCHANGED <<debugger_state, created, produced, files, open_files,
                   lastInit, local>>
    /\ NoReturn

\* terminate_debugger: the five assignments and the return
TerminateClear(c) ==
    /\ pc[c] = "terminate_released"
    /\ pc' = [pc EXCEPT ![c] = "idle"]
    /\ debugger_state' = TerminatedState
    /\ lastCall' = [op |-> "terminate_debugger"]
    /\ result' = TerminatedMsg
    /\ engineOps' = <<"Terminate">>
    /\ issued' = << >>
    /\ drained' = << >>
    /\ lastInit' = NoInit
    /\ UNCHANGED <<live, created, process, stdoutBuf, produced, files,
                   open_files, timesReturned, local>>

NextConcurrent ==
    \/ \E eng \in GoodInits : InitializeDebugger("/bin/a", "x86_64", eng)
    \/ \E c \in Callers, stale \in StaleReads : RunCheck(c, stale)
    \/ \E c \in Callers, beh \in ConcurrentBehaviours : RunExecute(c, beh)
    \/ \E c \in Callers : TerminateCheck(c)
    \/ \E c \in Callers : TerminateRelease(c)
    \/ \E c \in Callers : TerminateClear(c)

SpecConcurrent == Init /\ [][NextConcurrent]_vars

TypeOK ==
    /\ debugger_state.debugger \in Engines \cup {None}
    /\ live \subseteq Engines
    /\ created \in 0..MaxEngines
    /\ produced \in 0..MaxBytes
    /\ open_files = {}
    /\ pc \in [Callers -> {"idle", "run_checked", "terminate_checked",
                           "terminate_released"}]
    /\ local \in [Callers -> [interpreter : Engines \cup {None},
                              target : Engines \cup {None}]]

\* ------------------------------------------------------------------ claims
SessionOps == {"run_lldb_command", "set_breakpoint", "list_breakpoints",
               "get_debugger_status", "terminate_debugger"}

\* C1: in every reachable state the stored interpreter and target handles
\* are both non-null when the stored debugger handle is non-null and both
\* null when it is null; never only some of the handles are set.
C1_HandlesAllOrNone ==
    /\ debugger_state.debugger # None =>
          debugger_state.interpreter # None /\ debugger_state.target # None
    /\ debugger_state.debugger = None =>
          debugger_state.interpreter = None /\ debugger_state.target = None

\* C1 witness: an Initialized session on which an initialize_debugger call
\* has just failed at target creation.
C1_Witness ==
    /\ lastCall.op = "initialize_debugger"
    /\ result = TargetFailedMsg
    /\ debugger_state.debugger # None

\* A result of the NotInitialized class, per tool: the no-op message,
\* initialized=false, success=false, or a record with an error field.
NotInitializedClass(op, r) ==
    CASE op = "terminate_debugger"  -> r = NoSessionMsg
      [] op = "get_debugger_status" -> ~r.initialized
      [] op = "set_breakpoint"      -> ~r.success
      [] OTHER                      -> "error" \in DOMAIN r

\* C2: while the session is Uninitialized every tool but initialize returns
\* a NotInitialized-class result, calls nothing of the engine and leaves the
\* session Uninitialized.
C2_UninitializedRejected ==
    [][(debugger_state = Uninitialized /\ lastCall'.op \in SessionOps) =>
          /\ NotInitializedClass(lastCall'.op, result')
          /\ engineOps' = << >>
          /\ issued' = << >>
          /\ debugger_state' = Uninitialized]_vars

C4_StatusReportsInit ==
    (lastCall.op = "get_debugger_status" /\ lastInit # NoInit) =>
        /\ result.initialized
        /\ result.filename = lastInit.filename
        /\ result.arch = lastInit.arch

\* C4 witness: a status call on a session initialized for arm64, after a
\* later initialize_debugger failed and released the engine.
C4_Witness ==
    /\ lastCall.op = "get_debugger_status"
    /\ lastInit.arch = "arm64"
    /\ lastInit.filename = "/bin/b"
    /\ debugger_state.debugger \notin live

\* C5: terminate_debugger on an Initialized session releases the engine,
\* resets the five fields and returns the confirmation; on an Uninitialized
\* session it returns the no-op message, releases nothing and changes no
\* field; a terminate right after a terminate changes nothing.
C5_Terminate ==
    [][lastCall'.op = "terminate_debugger" =>
          /\ debugger_state.debugger # None =>
                /\ Contains(engineOps', "Terminate")
                /\ debugger_state.debugger \notin live'
                /\ debugger_state' = Uninitialized
                /\ result' = TerminatedMsg
          /\ debugger_state.debugger = None =>
                /\ engineOps' = << >>
                /\ live' = live
                /\ debugger_state' = debugger_state
                /\ result' = NoSessionMsg
          /\ lastCall.op = "terminate_debugger" =>
                /\ result' = NoSessionMsg
                /\ debugger_state' = debugger_state
                /\ live' = live]_vars

\* C5 witness: a session that was Initialized has just been terminated.
C5_Witness ==
    /\ lastCall.op = "terminate_debugger"
    /\ result = TerminatedMsg
    /\ debugger_state = Uninitialized

\* C2 counterexample is reached by list_breakpoints alone: the other four
\* tools do return a NotInitialized-class result on an Uninitialized session.
UninitializedRejectedButList ==
    [][(debugger_state = Uninitialized
          /\ lastCall'.op \in SessionOps \ {"list_breakpoints"}) =>
          /\ NotInitializedClass(lastCall'.op, result')
          /\ engineOps' = << >>
          /\ issued' = << >>
          /\ debugger_state' = Uninitialized]_vars

\* C6: an initialize_debugger that fails after the engine instance was
\* created releases that instance before returning the error and leaves
\* the session Uninitialized, whatever state it was called in.
C6_FailedInitRollsBack ==
    [][(lastCall'.op = "initialize_debugger"
          /\ result' \in {InterpreterFailedMsg, TargetFailedMsg}) =>
          /\ created' = created + 1
          /\ created' \notin live'
          /\ engineOps'[Len(engineOps')] = "Terminate"
          /\ debugger_state' = Uninitialized]_vars

\* C6, the part that holds: the instance the failing call created is
\* released, and a call made on an Uninitialized session leaves it so.
FailedInitReleasesOwnEngine ==
    [][(lastCall'.op = "initialize_debugger"
          /\ result' \in {InterpreterFailedMsg, TargetFailedMsg}) =>
          /\ created' = created + 1
          /\ created' \notin live'
          /\ engineOps'[Len(engineOps')] = "Terminate"
          /\ debugger_state' = debugger_state]_vars

\* C7: at most one engine instance is created and not released at any
\* time, and it is the one the session references.
C7_OneEngine ==
    /\ Cardinality(live) <= 1
    /\ live \subseteq {debugger_state.debugger}

\* The text of a location around its colons, read off the characters.
FirstColon(location) ==
    CHOOSE i \in 1..Len(location) :
        location[i] = ":" /\ \A j \in 1..(i - 1) : location[j] # ":"

BeforeFirstColon(location) == SubSeq(location, 1, FirstColon(location) - 1)

AfterFirstColon(location) ==
    SubSeq(location, FirstColon(location) + 1, Len(location))

\* from the first colon to the next colon, or to the end if there is none
UpToNextColon(text) ==
    IF \E i \in 1..Len(text) : text[i] = ":"
    THEN SubSeq(text, 1, FirstColon(text) - 1)
    ELSE text

HasColon(location) == \E i \in 1..Len(location) : location[i] = ":"

\* The command the precedence rule names, given the text taken as the line.
RuleCommand(location, condition, line) ==
    (IF HasColon(location)
     THEN <<"breakpoint set --file ">> \o BeforeFirstColon(location)
             \o <<" --line ">> \o line
     ELSE IF Len(location) >= 2 /\ SubSeq(location, 1, 2) = <<"0", "x">>
     THEN <<"breakpoint set --address ">> \o location
     ELSE <<"breakpoint set --name ">> \o location)
    \o (IF Len(condition) > 0 THEN <<" --condition '">> \o condition \o <<"'">>
        ELSE << >>)

C9_ReturnedOnce == \A b \in Bytes : timesReturned[b] <= 1

\* C9 witness: a run_lldb_command has just returned debuggee output, after
\* an earlier call returned other output.
C9_Witness ==
    /\ lastCall.op = "run_lldb_command"
    /\ result.program_stdout # << >>
    /\ \E b \in Bytes :
          /\ timesReturned[b] = 1
          /\ \A i \in 1..Len(result.program_stdout) : result.program_stdout[i] # b

\* C10: every byte a tool call removes from the engine's stdout buffer is in
\* the program_stdout that call returns, in receipt order.
C10_DrainedIsReturned ==
    drained # << >> =>
        "program_stdout" \in DOMAIN result /\ result.program_stdout = drained

\* C10, the part that holds: run_lldb_command and list_breakpoints return
\* exactly what they drained.
DrainedIsReturnedButSetBreakpoint ==
    (lastCall.op \in {"run_lldb_command", "list_breakpoints"}
        /\ "program_stdout" \in DOMAIN result) =>
        result.program_stdout = drained

\* The strings get_debugger_status may report as process_state.
Vocabulary ==
    {"invalid", "unloaded", "connected", "attaching", "launching", "stopped",
     "running", "stepping", "crashed", "detached", "exited", "suspended",
     "unknown"}

\* C11: the process_state of every get_debugger_status is a vocabulary
\* string, or "No process" on an Initialized session with no process id,
\* or "No debugger initialized" on an Uninitialized one; it is never the
\* engine's own value.
C11_FixedVocabulary ==
    lastCall.op = "get_debugger_status" =>
        /\ result.process_state \notin AllEngineStates
        /\ IF debugger_state.debugger = None
           THEN result.process_state = "No debugger initialized"
           ELSE \/ result.process_state = "No process" /\ result.process_id = None
                \/ result.process_state \in Vocabulary /\ result.process_id # None
        /\ (debugger_state.debugger \in live
              /\ process[debugger_state.debugger] \in AllEngineStates \ {"eStateOther"})
             => result.process_state \in Vocabulary \ {"unknown"}

\* C11 witness: the status of a process whose state state_names does not
\* list has just been reported.
C11_Witness ==
    /\ lastCall.op = "get_debugger_status"
    /\ result.process_state = "unknown"
    /\ process[debugger_state.debugger] = "eStateOther"

\* C13: after run_lldb_command with an output filename that can be opened
\* has executed its command, the file exists, is closed, and holds the
\* interpreter output and program stdout that the call returned.
C13_FileHoldsOutput ==
    (/\ lastCall.op = "run_lldb_command"
     /\ lastCall.output_filename = <<"out.txt">>
     /\ "command" \in DOMAIN result) =>
        /\ files[<<"out.txt">>].exists
        /\ <<"out.txt">> \notin open_files
        /\ files[<<"out.txt">>].content = result.lldb_output \o result.program_stdout

\* C14: run_lldb_command with an output filename that cannot be opened
\* returns a record with the I/O error in its error field and no command
\* result, runs nothing on the engine, leaves the session state, the
\* engines and the files as they were, and leaves no file open.
C14_UnopenableFile ==
    [][(lastCall'.op = "run_lldb_command"
          /\ lastCall'.output_filename = <<"/nodir/out.txt">>) =>
          /\ DOMAIN result' = {"error"}
          /\ result'.error # NotInitializedMsg
          /\ engineOps' = << >>
          /\ issued' = << >>
          /\ debugger_state' = debugger_state
          /\ live' = live
          /\ files' = files
          /\ open_files' = {}]_vars

\* C14 witness: the call was made on a session whose engine is live.
C14_Witness ==
    /\ lastCall.op = "run_lldb_command"
    /\ lastCall.output_filename = <<"/nodir/out.txt">>
    /\ debugger_state.debugger \in live
    /\ result = [error |-> OpenFailedMsg(<<"/nodir/out.txt">>)]

\* the last call failed: initialization failure, session not initialized,
\* output file I/O error, command reported as failed, breakpoint not set
CallFailed ==
    \/ /\ lastCall.op = "initialize_debugger"
       /\ result # InitializedMsg(lastCall.filename, lastCall.arch)
    \/ /\ lastCall.op = "terminate_debugger"
       /\ FALSE
    \/ /\ lastCall.op \in {"run_lldb_command", "list_breakpoints", "set_breakpoint"}
       /\ \/ issued = << >>
          \/ Contains(result.lldb_output, "error")
          \/ ~Contains(result.lldb_output, "Breakpoint")
               /\ lastCall.op = "set_breakpoint"

\* the last result carries an error field or success = false; the bare
\* string initialize_debugger returns has no fields
HasMarker ==
    /\ lastCall.op \in {"run_lldb_command", "list_breakpoints", "set_breakpoint"}
    /\ \/ "error" \in DOMAIN result
       \/ "success" \in DOMAIN result /\ ~result.success

\* C15: every failed tool call returns a structural failure marker, an
\* error field or success = false.
C15_FailureMarker == CallFailed => HasMarker

\* the lifecycle state: Initialized when the session holds an engine handle
Initialized == debugger_state.debugger # None

\* C16: only a successful initialize_debugger takes the session from
\* Uninitialized to Initialized, only terminate_debugger takes it from
\* Initialized to Uninitialized, and the other four tools and every failing
\* initialize_debugger leave the lifecycle state as it was.
C16_LifecycleTransitions ==
    [][/\ (~Initialized /\ Initialized') =>
            /\ lastCall'.op = "initialize_debugger"
            /\ result' = InitializedMsg(lastCall'.filename, lastCall'.arch)
       /\ (Initialized /\ ~Initialized') => lastCall'.op = "terminate_debugger"
       /\ lastCall'.op \in {"run_lldb_command", "set_breakpoint",
                            "list_breakpoints", "get_debugger_status"} =>
            debugger_state' = debugger_state
       /\ (lastCall'.op = "initialize_debugger"
             /\ result' # InitializedMsg(lastCall'.filename, lastCall'.arch)) =>
            Initialized' = Initialized]_vars

\* C16 witness: an initialize_debugger that failed at the interpreter, on
\* an Initialized session.
C16_Witness ==
    /\ lastCall.op = "initialize_debugger"
    /\ result = InterpreterFailedMsg
    /\ Initialized

\* C17: in every state where the session is Initialized its three handles
\* belong to an engine that has not been released, and every command a
\* tool issues goes to a live engine.
C17_HandlesLive ==
    /\ Initialized =>
          {debugger_state.debugger, debugger_state.interpreter,
           debugger_state.target} \subseteq live
    /\ \A i \in DOMAIN issued : issued[i].engine \in live

\* what a run_lldb_command made now, whose command leaves the debuggee
\* stopped and silent, would return as program_stdout
NextProgramStdout ==
    run_lldb_command_func(<<"run">>, [interpreter |-> TRUE, target |-> TRUE],
                          [out |-> <<"frame">>, err |-> <<"error">>, ok |-> TRUE,
                           state |-> "eStateStopped", nbytes |-> 0]).ret.program_stdout

\* C18: get_debugger_status leaves the five session fields, the engines,
\* the debuggee processes and their stdout buffers as they were, reads no
\* debuggee output, and the program_stdout the next run_lldb_command
\* returns is the same after the call as before it.
C18_StatusPureRead ==
    [][lastCall'.op = "get_debugger_status" =>
          /\ debugger_state' = debugger_state
          /\ live' = live
          /\ created' = created
          /\ process' = process
          /\ stdoutBuf' = stdoutBuf
          /\ drained' = << >>
          /\ \A i \in DOMAIN engineOps' :
                engineOps'[i] \notin {"Create", "Terminate", "GetSTDOUT", "HandleCommand"}
          /\ NextProgramStdout' = NextProgramStdout]_vars

\* C18 witness: a status call on a live session whose debuggee has written
\* output that no call has read yet.
C18_Witness ==
    /\ lastCall.op = "get_debugger_status"
    /\ debugger_state.target \in live
    /\ result.process_state = "stopped"
    /\ stdoutBuf[debugger_state.target] # << >>

\* the reads a buffer of n bytes takes: one per chunk and the empty one
ReadsFor(n) == ((n + ChunkSize - 1) \div ChunkSize) + 1

\* the number of GetSTDOUT calls in a list of engine calls
RECURSIVE CountGetSTDOUT(_)
CountGetSTDOUT(ops) ==
    IF ops = << >> THEN 0
    ELSE (IF Head(ops) = "GetSTDOUT" THEN 1 ELSE 0) + CountGetSTDOUT(Tail(ops))

\* C19: when run_lldb_command executes on a live session whose target has
\* a valid process, the drain reads chunks of at most ChunkSize bytes and
\* stops at the first empty read; on return the target's stdout buffer is
\* empty and program_stdout is the whole buffered content, in order.
C19_DrainEmptiesBuffer ==
    [][(/\ lastCall'.op = "run_lldb_command"
        /\ "command" \in DOMAIN result'
        /\ debugger_state.target \in live
        /\ process'[debugger_state.target] # "none") =>
          LET target   == debugger_state.target
              buffered == stdoutBuf[target]
                            \o [i \in 1..(produced' - produced) |-> produced + i]
          IN  /\ stdoutBuf'[target] = << >>
              /\ result'.program_stdout = buffered
              /\ CountGetSTDOUT(engineOps') = ReadsFor(Len(buffered))]_vars

\* C19 witness: a run_lldb_command has returned a buffer of more than one
\* chunk and left the buffer empty.
C19_Witness ==
    /\ lastCall.op = "run_lldb_command"
    /\ "command" \in DOMAIN result
    /\ Len(result.program_stdout) > ChunkSize
    /\ debugger_state.target \in live
    /\ stdoutBuf[debugger_state.target] = << >>

\* the three initialized-checks, under one reading of the handles
StatusCheck == debugger_state.debugger # None
SetBreakpointCheck(reads) == Truthy(debugger_state.interpreter, reads.interpreter)
RunCheckPasses(reads) ==
    /\ Truthy(debugger_state.interpreter, reads.interpreter)
    /\ Truthy(debugger_state.target, reads.target)

\* C20: in every reachable state get_debugger_status reports
\* initialized=true exactly when set_breakpoint passes its guard, exactly
\* when run_lldb_command and list_breakpoints pass theirs, and the stored
\* filename and arch are non-null exactly then.
C20_ChecksAgree ==
    \A reads \in StaleReads :
        /\ StatusCheck <=> SetBreakpointCheck(reads)
        /\ SetBreakpointCheck(reads) <=> RunCheckPasses(reads)
        /\ StatusCheck <=> (debugger_state.filename # NoneStr
                              /\ debugger_state.arch # NoneStr)

\* C20, the part that holds: the checks agree while the engine the session
\* references has not been released.
ChecksAgreeWhileLive ==
    debugger_state.debugger \in live \cup {None} => C20_ChecksAgree

\* caller c takes the step from HandleCommand to the return
Executes(c) == pc[c] = "run_checked" /\ pc'[c] = "idle"

\* C12: tool calls are serialized, so that when a run_lldb_command hands
\* its command to the engine, the handles it checked are still the
\* session's handles and still belong to a live engine, and no other call
\* is inside its body.
C12_Serialized ==
    [][\A c \in Callers : Executes(c) =>
          /\ local[c].interpreter = debugger_state.interpreter
          /\ local[c].target = debugger_state.target
          /\ local[c].interpreter \in live
          /\ \A d \in Callers \ {c} : pc[d] = "idle"]_vars

\* C12, the interleaving the claim excludes, alone: no command is handed
\* to the interpreter of an engine released since the call's check.
NoCommandOnReleasedEngine ==
    [][\A c \in Callers : Executes(c) => local[c].interpreter \in live]_vars

=============================================================================
